---- MODULE Spec2Model ----
(***************************************************************************)
(* A model of the JiraCloud client of src/__init__.py: the constructor     *)
(* with its liveness probe, the request primitives __get/__post/__put, and *)
(* the public operations, with the two pagination loops (search_issues,    *)
(* get_projects) modelled one round trip per step.  The remote service is  *)
(* a black box: each round trip draws its outcome and its payload from the *)
(* responses the service may give.                                         *)
(***************************************************************************)
EXTENDS Integers, Sequences, FiniteSets, TLC

VARIABLES
    client,        \* "none" | "ready" | "failed": whether a JiraCloud instance exists
    probes,        \* number of serverInfo GETs this client has issued
    first_path,    \* resource path of the first request of this client ("" = none yet)
    pc,            \* "idle" | "search_loop" | "projects_loop" | "returned" | "raised"
    op,            \* the operation in progress or last finished
    reqs,          \* the round trips of that operation, in order
    result,        \* the value returned (meaningful when pc = "returned")
    error,         \* the exception raised (meaningful when pc = "raised")
    svcMode,       \* how the remote service behaves during this operation
    max_results,   \* search_issues argument (optional)
    total,         \* service: size of the result set of the JQL query
    pageSize,      \* service: items per page when the request names no maxResults
    issues,        \* search_issues local
    start_at,      \* search_issues local
    num_to_grab,   \* search_issues local
    psizes,        \* service: the number of values on each project page
    response,      \* get_projects local: the last decoded response
    project_list,  \* get_projects local
    email,         \* get_user_by_email argument
    data,          \* get_user_by_email local: the decoded user list
    meta           \* get_create_issue_meta local: the decoded createmeta response

vars == <<client, probes, first_path, pc, op, reqs, result, error, svcMode,
          max_results, total, pageSize, issues, start_at, num_to_grab,
          psizes, response, project_list, email, data, meta>>

-----------------------------------------------------------------------------
(* Bounds of the model. *)

MaxRequests == 4      \* round trips followed within one operation
MaxTotal == 3         \* small result-set sizes 0..MaxTotal
MaxPage == 2          \* small service page sizes 1..MaxPage
MaxCap == 2           \* small max_results arguments 0..MaxCap
MaxPages == 3         \* project pages of the service
MaxPageValues == 2    \* values on one project page
MaxUsers == 2         \* users in one user/search response

(* Program constant: the threshold of `max_results <= 50`, the page size   *)
(* the code's comment assumes the service to use.                          *)
DefaultPageSize == 50

-----------------------------------------------------------------------------
(* Optional values (Python None / a value) and small helpers. *)

None == <<>>
Some(x) == <<x>>

\* Python truthiness of an optional int: None and 0 are falsy.
Truthy(opt) == opt # None /\ opt[1] # 0

Min(a, b) == IF a <= b THEN a ELSE b
Max(a, b) == IF a >= b THEN a ELSE b

Outcomes == {"ok", "http_error", "transport_error"}
Modes == {"exact", "consistent", "arbitrary"}

NoResult == <<>>

\* One round trip as the operation's log keeps it: the request's path and
\* paging parameters, how it ended, and what the response carried.
Req(path, startAt, maxResults, outcome, count, nextPage) ==
    [path |-> path, startAt |-> startAt, maxResults |-> maxResults,
     outcome |-> outcome, count |-> count, nextPage |-> nextPage]

-----------------------------------------------------------------------------
(* The request primitives.  Each is one round trip; what they return here  *)
(* is the exception that leaves the primitive ("none": the response is     *)
(* returned to the caller).  A transport error is raised by session.get /  *)
(* post / put itself, a non-2xx status by raise_for_status().              *)

getNoRaise(outcome, raise_for_status) ==
    IF outcome = "transport_error" THEN "ConnectionError" ELSE "none"

get(outcome, raise_for_status) ==
    IF outcome = "transport_error" THEN "ConnectionError"
    ELSE IF raise_for_status /\ outcome = "http_error" THEN "HTTPError"
    ELSE "none"

post(outcome, raise_for_status) ==
    IF outcome = "transport_error" THEN "ConnectionError"
    ELSE IF raise_for_status /\ outcome = "http_error" THEN "HTTPError"
    ELSE "none"

put(outcome, raise_for_status) ==
    IF outcome = "transport_error" THEN "ConnectionError"
    ELSE IF raise_for_status /\ outcome = "http_error" THEN "HTTPError"
    ELSE "none"

-----------------------------------------------------------------------------
(* Frame helpers. *)

NoResponse == [isLast |-> TRUE, nextPage |-> None]
NoMeta == [projects |-> <<>>]

ResetSearch ==
    /\ max_results' = None /\ total' = 0 /\ pageSize' = 1
    /\ issues' = <<>> /\ start_at' = 0 /\ num_to_grab' = 0

ResetProjects ==
    /\ psizes' = <<>> /\ response' = NoResponse /\ project_list' = <<>>

ResetUser == email' = "" /\ data' = <<>>

ResetMeta == meta' = NoMeta

\* A public method is entered on an existing instance, by a caller that is
\* not inside another call (the client is synchronous).
Callable == client = "ready" /\ pc = "idle"

Begin(name, path) ==
    /\ op' = name
    /\ first_path' = IF first_path = "" THEN path ELSE first_path
    /\ UNCHANGED <<client, probes>>

Return(v) == pc' = "returned" /\ result' = v /\ error' = "none"
Raise(e) == pc' = "raised" /\ result' = NoResult /\ error' = e

Init ==
    /\ client = "none" /\ probes = 0 /\ first_path = ""
    /\ pc = "idle" /\ op = "none" /\ reqs = <<>>
    /\ result = NoResult /\ error = "none" /\ svcMode = "exact"
    /\ max_results = None /\ total = 0 /\ pageSize = 1
    /\ issues = <<>> /\ start_at = 0 /\ num_to_grab = 0
    /\ psizes = <<>> /\ response = NoResponse /\ project_list = <<>>
    /\ email = "" /\ data = <<>> /\ meta = NoMeta

-----------------------------------------------------------------------------
(* The end of a call: the value or the exception has reached the caller    *)
(* and the call's locals are gone.  The instance keeps nothing of a call:  *)
(* its attributes are the session configuration set by __init__.           *)
caller_continues ==
    /\ pc \in {"returned", "raised"}
    /\ pc' = "idle" /\ op' = "none" /\ reqs' = <<>>
    /\ result' = NoResult /\ error' = "none" /\ svcMode' = "exact"
    /\ ResetSearch /\ ResetProjects /\ ResetUser /\ ResetMeta
    /\ UNCHANGED <<client, probes, first_path>>

(* JiraCloud.__init__: configure the session, then probe serverInfo.  An   *)
(* exception of the probe leaves the constructor, so no instance exists.   *)

ConstructNoProbe ==
    /\ client = "none" /\ pc = "idle"
    /\ client' = "ready"
    /\ op' = "__init__"
    /\ reqs' = <<>>
    /\ Return(NoResult)
    /\ UNCHANGED <<probes, first_path, svcMode>>
    /\ ResetSearch /\ ResetProjects /\ ResetUser /\ ResetMeta

Construct ==
    /\ client = "none" /\ pc = "idle"
    /\ \E outcome \in Outcomes :
         LET exc == get(outcome, TRUE) IN
         /\ reqs' = <<Req("serverInfo", None, None, outcome, 0, None)>>
         /\ probes' = probes + 1
         /\ first_path' = IF first_path = "" THEN "serverInfo" ELSE first_path
         /\ op' = "__init__"
         /\ IF exc = "none"
              THEN client' = "ready" /\ Return(NoResult)
              ELSE client' = "failed" /\ Raise(exc)
    /\ UNCHANGED svcMode
    /\ ResetSearch /\ ResetProjects /\ ResetUser /\ ResetMeta

-----------------------------------------------------------------------------
(* The issue-search service: a fixed ordered result set of `total` items,  *)
(* item i being the integer i.  A request for offset s with limit lim is   *)
(* answered with k items from position s on: all that fit ("exact"), at    *)
(* least one of them ("consistent"), or any number, zero included          *)
(* ("arbitrary").                                                          *)

Page(s, k) == [i \in 1..k |-> s + i - 1]

Counts(mode, tot, s, lim) ==
    LET cap == Min(lim, Max(tot - s, 0)) IN
    CASE mode = "exact" -> {cap}
      [] mode = "consistent" -> IF cap = 0 THEN {0} ELSE 1..cap
      [] OTHER -> 0..cap

MaxResultsArgs ==
    {None} \cup {Some(m) : m \in (0..MaxCap) \cup {DefaultPageSize, DefaultPageSize + 1}}
\* The services an operation may meet: small result sets and page sizes in
\* every mode, and one result set larger than a page of DefaultPageSize.
Services ==
    ((0..MaxTotal) \X (1..MaxPage) \X Modes)
        \cup {<<DefaultPageSize + 2, DefaultPageSize, "exact">>}

(* search_issues, lines 120-125: the maxResults parameter of the first     *)
(* request.                                                                *)
FirstMaxResultsNever(mr) == None

FirstMaxResults(mr) ==
    IF Truthy(mr) /\ mr[1] <= DefaultPageSize THEN mr ELSE None

(* search_issues, lines 131-135. *)
NumToGrab(mr, tot) == IF Truthy(mr) THEN Min(mr[1], tot) ELSE tot

(* search_issues up to and including the first request and the first test  *)
(* of the loop condition.                                                  *)
search_issues_call ==
    /\ Callable
    /\ Begin("search_issues", "search")
    /\ \E mr \in MaxResultsArgs, svc \in Services, outcome \in Outcomes :
         LET tot == svc[1]
             ps == svc[2]
             mode == svc[3]
             exc == get(outcome, TRUE)
             first == FirstMaxResults(mr)
             lim == IF first = None THEN ps ELSE first[1]
         IN
         /\ max_results' = mr /\ total' = tot /\ pageSize' = ps /\ svcMode' = mode
         /\ start_at' = 0
         /\ IF exc # "none"
              THEN /\ reqs' = <<Req("search", None, first, outcome, 0, None)>>
                   /\ issues' = <<>> /\ num_to_grab' = 0
                   /\ Raise(exc)
              ELSE \E k \in Counts(mode, tot, 0, lim) :
                   /\ reqs' = <<Req("search", None, first, outcome, k, None)>>
                   /\ issues' = Page(0, k)
                   /\ num_to_grab' = NumToGrab(mr, tot)
                   /\ IF Len(issues') < num_to_grab'
                        THEN pc' = "search_loop" /\ result' = NoResult /\ error' = "none"
                        ELSE Return(issues')
    /\ ResetProjects /\ ResetUser /\ ResetMeta

(* One iteration of the while loop of search_issues, lines 138-142, and    *)
(* the test that follows it.                                               *)
search_issues_loop ==
    /\ pc = "search_loop"
    /\ Len(reqs) < MaxRequests
    /\ \E outcome \in Outcomes :
         LET exc == get(outcome, TRUE) IN
         IF exc # "none"
           THEN /\ reqs' = Append(reqs, Req("search", Some(start_at), None, outcome, 0, None))
                /\ Raise(exc)
                /\ UNCHANGED <<issues, start_at>>
           ELSE \E k \in Counts(svcMode, total, start_at, pageSize) :
                /\ reqs' = Append(reqs, Req("search", Some(start_at), None, outcome, k, None))
                /\ issues' = issues \o Page(start_at, k)
                /\ start_at' = start_at + k
                /\ IF Len(issues') < num_to_grab
                     THEN UNCHANGED <<pc, result, error>>
                     ELSE Return(issues')
    /\ UNCHANGED <<client, probes, first_path, op, svcMode, max_results, total,
                   pageSize, num_to_grab, psizes, response, project_list,
                   email, data, meta>>

-----------------------------------------------------------------------------
(* The single-round-trip issue operations.  Arguments and bodies are       *)
(* opaque to the client and are passed through.                            *)

\* update_issue: PUT issue/{issue_key}; the raw response is returned.
update_issue ==
    /\ Callable
    /\ Begin("update_issue", "issue/{key}")
    /\ \E outcome \in Outcomes :
         LET exc == put(outcome, TRUE) IN
         /\ reqs' = <<Req("issue/{key}", None, None, outcome, 0, None)>>
         /\ IF exc # "none" THEN Raise(exc) ELSE Return([kind |-> "Response"])
    /\ UNCHANGED svcMode
    /\ ResetSearch /\ ResetProjects /\ ResetUser /\ ResetMeta

\* create_issue: POST issue; the decoded body is returned.
create_issue ==
    /\ Callable
    /\ Begin("create_issue", "issue")
    /\ \E outcome \in Outcomes :
         LET exc == post(outcome, TRUE) IN
         /\ reqs' = <<Req("issue", None, None, outcome, 0, None)>>
         /\ IF exc # "none" THEN Raise(exc) ELSE Return([kind |-> "json"])
    /\ UNCHANGED svcMode
    /\ ResetSearch /\ ResetProjects /\ ResetUser /\ ResetMeta

\* add_text_comment: POST issue/{id}/comment; the decoded body is returned.
add_text_comment ==
    /\ Callable
    /\ Begin("add_text_comment", "issue/{key}/comment")
    /\ \E outcome \in Outcomes :
         LET exc == post(outcome, TRUE) IN
         /\ reqs' = <<Req("issue/{key}/comment", None, None, outcome, 0, None)>>
         /\ IF exc # "none" THEN Raise(exc) ELSE Return([kind |-> "json"])
    /\ UNCHANGED svcMode
    /\ ResetSearch /\ ResetProjects /\ ResetUser /\ ResetMeta

\* transition_issue: POST issue/{id}/transitions; nothing is returned.
transition_issue ==
    /\ Callable
    /\ Begin("transition_issue", "issue/{key}/transitions")
    /\ \E outcome \in Outcomes :
         LET exc == post(outcome, TRUE) IN
         /\ reqs' = <<Req("issue/{key}/transitions", None, None, outcome, 0, None)>>
         /\ IF exc # "none" THEN Raise(exc) ELSE Return(None)
    /\ UNCHANGED svcMode
    /\ ResetSearch /\ ResetProjects /\ ResetUser /\ ResetMeta

-----------------------------------------------------------------------------
(* get_user_by_email. *)

Emails == {"a@b.com", "a@c.com"}
KeyMissing == "(no emailAddress key)"
Users == [accountId : 1..2, emailAddress : Emails \cup {KeyMissing}]
UserLists == UNION {[1..n -> Users] : n \in 0..MaxUsers}
EmptyDict == <<>>

\* Lines 223-227: what the method does with the decoded list.
user_by_email_no_guard(d, e) ==
    IF Len(d) > 1 THEN [raised |-> "ValueError", value |-> NoResult]
    ELSE IF d = <<>> THEN [raised |-> "none", value |-> EmptyDict]
    ELSE [raised |-> "none", value |-> d[1]]

user_by_email(d, e) ==
    IF Len(d) > 1 THEN [raised |-> "ValueError", value |-> NoResult]
    ELSE IF d = <<>> THEN [raised |-> "none", value |-> EmptyDict]
    ELSE IF d[1].emailAddress = KeyMissing
           THEN [raised |-> "KeyError", value |-> NoResult]
    ELSE IF d[1].emailAddress # e THEN [raised |-> "none", value |-> EmptyDict]
    ELSE [raised |-> "none", value |-> d[1]]

get_user_by_email ==
    /\ Callable
    /\ Begin("get_user_by_email", "user/search")
    /\ \E e \in Emails, outcome \in Outcomes :
         LET exc == get(outcome, TRUE) IN
         /\ email' = e
         /\ reqs' = <<Req("user/search", None, None, outcome, 0, None)>>
         /\ IF exc # "none"
              THEN data' = <<>> /\ Raise(exc)
              ELSE \E d \in UserLists :
                   LET r == user_by_email(d, e) IN
                   /\ data' = d
                   /\ IF r.raised # "none" THEN Raise(r.raised) ELSE Return(r.value)
    /\ UNCHANGED svcMode
    /\ ResetSearch /\ ResetProjects /\ ResetMeta

-----------------------------------------------------------------------------
(* The project-search service: the projects lie on Len(sz) pages, page k   *)
(* holding sz[k] values <<k, 1>> .. <<k, sz[k]>>.  The cursor of page k is *)
(* k; a request without a cursor is answered with page 1.  In mode "exact" *)
(* every page reports isLast correctly and names the cursor of the page    *)
(* after it; in mode "arbitrary" a reply carries the page asked for with   *)
(* any isLast, and a reply that is not the last names no cursor or the     *)
(* cursor it was asked with.                                               *)

ProjectLayouts == UNION {[1..n -> 0..MaxPageValues] : n \in 1..MaxPages}

ProjPage(sz, k) == [j \in 1..sz[k] |-> <<k, j>>]

ProjectReplies(mode, sz, cursor) ==
    LET c == IF cursor # None /\ cursor[1] \in 1..Len(sz) THEN cursor[1] ELSE 1 IN
    IF mode = "arbitrary"
      THEN {[values |-> ProjPage(sz, c), isLast |-> TRUE, nextPage |-> None]}
           \cup {[values |-> ProjPage(sz, c), isLast |-> FALSE, nextPage |-> n] :
                   n \in {None, Some(c)}}
      ELSE {[values |-> ProjPage(sz, c), isLast |-> (c = Len(sz)),
             nextPage |-> IF c = Len(sz) THEN None ELSE Some(c + 1)]}

\* Line 238: the loop condition.
ProjectsContinue(resp) == resp.isLast = FALSE

\* Line 239: the startAt parameter of a follow-up request.
NextStartAtDropped(resp) == None

NextStartAt(resp) == resp.nextPage

\* get_projects up to and including the first request and the first test of
\* the loop condition.
get_projects_call ==
    /\ Callable
    /\ Begin("get_projects", "project/search")
    /\ \E sz \in ProjectLayouts, mode \in {"exact", "arbitrary"}, outcome \in Outcomes :
         LET exc == get(outcome, TRUE) IN
         /\ psizes' = sz /\ svcMode' = mode
         /\ IF exc # "none"
              THEN /\ reqs' = <<Req("project/search", None, None, outcome, 0, None)>>
                   /\ response' = NoResponse /\ project_list' = <<>>
                   /\ Raise(exc)
              ELSE \E r \in ProjectReplies(mode, sz, None) :
                   /\ reqs' = <<Req("project/search", None, None, outcome,
                                    Len(r.values), r.nextPage)>>
                   /\ response' = [isLast |-> r.isLast, nextPage |-> r.nextPage]
                   /\ project_list' = r.values
                   /\ IF ProjectsContinue(response')
                        THEN pc' = "projects_loop" /\ result' = NoResult /\ error' = "none"
                        ELSE Return(project_list')
    /\ ResetSearch /\ ResetUser /\ ResetMeta

\* One iteration of the while loop of get_projects, lines 238-240, and the
\* test that follows it.  response['nextPage'] of a reply without that key
\* raises KeyError before any request is made.
get_projects_loop ==
    /\ pc = "projects_loop"
    /\ Len(reqs) < MaxRequests
    /\ IF response.nextPage = None
         THEN Raise("KeyError") /\ UNCHANGED <<reqs, response, project_list>>
         ELSE \E outcome \in Outcomes :
              LET exc == get(outcome, TRUE)
                  cur == NextStartAt(response)
              IN
              IF exc # "none"
                THEN /\ reqs' = Append(reqs, Req("project/search", cur, None, outcome, 0, None))
                     /\ Raise(exc)
                     /\ UNCHANGED <<response, project_list>>
                ELSE \E r \in ProjectReplies(svcMode, psizes, cur) :
                     /\ reqs' = Append(reqs, Req("project/search", cur, None, outcome,
                                                 Len(r.values), r.nextPage))
                     /\ response' = [isLast |-> r.isLast, nextPage |-> r.nextPage]
                     /\ project_list' = project_list \o r.values
                     /\ IF ProjectsContinue(response')
                          THEN UNCHANGED <<pc, result, error>>
                          ELSE Return(project_list')
    /\ UNCHANGED <<client, probes, first_path, op, svcMode, max_results, total,
                   pageSize, issues, start_at, num_to_grab, psizes, email, data, meta>>

-----------------------------------------------------------------------------
(* get_create_issue_meta(project_key, issue_type_name): GET issue/createmeta *)
(* filtered to one project and one issue type; the reply carries a list    *)
(* `projects`, each project a list `issuetypes`.                           *)

ProjectKeys == {"PROJ"}
IssueTypeNames == {"Bug", "Task"}
IssueTypeLists == {<<>>} \cup {<<[name |-> t]>> : t \in IssueTypeNames}
MetaProjects == [key : ProjectKeys, issuetypes : IssueTypeLists]
MetaReplies == {[projects |-> <<>>]} \cup {[projects |-> <<p>>] : p \in MetaProjects}

create_issue_meta_one_error(m) ==
    IF m.projects = <<>> THEN [raised |-> "NotFound", value |-> NoResult]
    ELSE IF m.projects[1].issuetypes = <<>>
           THEN [raised |-> "NotFound", value |-> NoResult]
    ELSE [raised |-> "none",
          value |-> [project |-> m.projects[1],
                     issuetype |-> m.projects[1].issuetypes[1]]]

create_issue_meta(m) ==
    IF m.projects = <<>> THEN [raised |-> "ProjectNotFound", value |-> NoResult]
    ELSE IF m.projects[1].issuetypes = <<>>
           THEN [raised |-> "IssueTypeNotFound", value |-> NoResult]
    ELSE [raised |-> "none",
          value |-> [project |-> m.projects[1],
                     issuetype |-> m.projects[1].issuetypes[1]]]

get_create_issue_meta ==
    /\ Callable
    /\ Begin("get_create_issue_meta", "issue/createmeta")
    /\ \E outcome \in Outcomes :
         LET exc == get(outcome, TRUE) IN
         /\ reqs' = <<Req("issue/createmeta", None, None, outcome, 0, None)>>
         /\ IF exc # "none"
              THEN meta' = NoMeta /\ Raise(exc)
              ELSE \E m \in MetaReplies :
                   LET r == create_issue_meta(m) IN
                   /\ meta' = m
                   /\ IF r.raised # "none" THEN Raise(r.raised) ELSE Return(r.value)
    /\ UNCHANGED svcMode
    /\ ResetSearch /\ ResetProjects /\ ResetUser

-----------------------------------------------------------------------------
Next ==
    \/ Construct
    \/ caller_continues
    \/ update_issue
    \/ search_issues_call
    \/ search_issues_loop
    \/ create_issue
    \/ add_text_comment
    \/ transition_issue
    \/ get_user_by_email
    \/ get_projects_call
    \/ get_projects_loop
    \/ get_create_issue_meta

Spec == Init /\ [][Next]_vars

-----------------------------------------------------------------------------
(* Properties.                                                             *)

ConsistentService == svcMode \in {"exact", "consistent"}

Last == reqs[Len(reqs)]

\* The offset a search request asks for: startAt, or 0 when it names none.
Offset(r) == IF r.startAt = None THEN 0 ELSE r.startAt[1]

\* The number of items the first n responses of the operation carried.
RECURSIVE SumCounts(_, _)
SumCounts(rs, n) == IF n = 0 THEN 0 ELSE SumCounts(rs, n - 1) + rs[n].count

\* The values of the first k project pages, in page order.
RECURSIVE Flatten(_, _)
Flatten(sz, k) == IF k = 0 THEN <<>> ELSE Flatten(sz, k - 1) \o ProjPage(sz, k)

\* The exception a failed round trip raises.
ExcOf(outcome) == IF outcome = "transport_error" THEN "ConnectionError" ELSE "HTTPError"

(* C1: search_issues called without max_results against a consistent       *)
(* service returns exactly the service's result set, in service order:     *)
(* `total` items, none twice.                                              *)
C1_SearchReturnsResultSet ==
    (op = "search_issues" /\ pc = "returned" /\ max_results = None /\ ConsistentService)
        => result = Page(0, total)

(* C2: search_issues called with a positive max_results against a          *)
(* consistent service never returns more than max_results items.           *)
C2_NeverMoreThanMaxResults ==
    (/\ op = "search_issues" /\ pc = "returned"
     /\ max_results # None /\ max_results[1] >= 1
     /\ ConsistentService)
        => Len(result) <= max_results[1]

(* C3: a page that carries zero items while the terminal condition is not  *)
(* reached (search: fewer items accumulated than wanted; projects: isLast  *)
(* false) makes the operation fail; it is never followed by another        *)
(* iteration of the loop.                                                  *)
C3_ZeroItemPageFails ==
    /\ (/\ op = "search_issues" /\ reqs # <<>>
        /\ Last.outcome = "ok" /\ Last.count = 0
        /\ Len(issues) < num_to_grab)
          => pc = "raised"
    /\ (/\ op = "get_projects" /\ reqs # <<>>
        /\ Last.outcome = "ok" /\ Last.count = 0
        /\ response.isLast = FALSE)
          => pc = "raised"

C5_SmallCapOneRequest ==
    (/\ op = "search_issues" /\ svcMode = "exact"
     /\ max_results # None /\ max_results[1] \in 1..DefaultPageSize
     /\ total >= max_results[1])
        => /\ pc \in {"returned", "raised"}
           /\ Len(reqs) = 1
           /\ reqs[1].path = "search"
           /\ reqs[1].maxResults = max_results
           /\ reqs[1].startAt = None
           /\ pc = "returned" => (reqs[1].outcome = "ok" /\ Len(result) = max_results[1])

C5_Witness ==
    /\ op = "search_issues" /\ svcMode = "exact" /\ pc = "returned"
    /\ max_results = Some(2) /\ total = 3 /\ Len(result) = 2

(* C6: a round trip that fails (non-2xx status or transport error) is the  *)
(* last one of its operation; the operation ends by raising that error and *)
(* returns no value, whatever it had accumulated; a failed probe leaves no *)
(* client.                                                                 *)
C6_FailedRoundTripRaises ==
    \A i \in 1..Len(reqs) :
        reqs[i].outcome # "ok" =>
            /\ i = Len(reqs)
            /\ pc = "raised"
            /\ result = NoResult
            /\ error = ExcOf(reqs[i].outcome)
            /\ op = "__init__" => client = "failed"

C6_Witness ==
    /\ op = "search_issues" /\ pc = "raised" /\ Len(reqs) >= 2
    /\ Last.outcome = "http_error" /\ Len(issues) > 0

(* C7: get_user_by_email makes one user/search request; two or more users  *)
(* raise ValueError, one user with exactly the queried emailAddress is     *)
(* returned in full, one user with another emailAddress or an empty list   *)
(* gives the empty mapping.                                                *)
C7_UserByEmail ==
    op = "get_user_by_email" =>
        /\ Len(reqs) = 1
        /\ reqs[1].path = "user/search"
        /\ reqs[1].outcome = "ok" =>
             /\ Len(data) >= 2 => (pc = "raised" /\ error = "ValueError")
             /\ (Len(data) = 1 /\ data[1].emailAddress = email)
                  => (pc = "returned" /\ result = data[1])
             /\ (Len(data) = 1 /\ data[1].emailAddress \in Emails \ {email})
                  => (pc = "returned" /\ result = EmptyDict)
             /\ Len(data) = 0 => (pc = "returned" /\ result = EmptyDict)

C7_Witness ==
    /\ op = "get_user_by_email" /\ pc = "returned"
    /\ email = "a@b.com" /\ Len(data) = 1 /\ data[1].emailAddress = "a@c.com"
    /\ result = EmptyDict

(* C8: a client exists only after exactly one serverInfo GET, which is the *)
(* first request of that client; a domain method runs only on an existing  *)
(* client, and after a failed probe there is none.                         *)
C8_ProbeFirst ==
    /\ probes <= 1
    /\ first_path \in {"", "serverInfo"}
    /\ client = "none" => (probes = 0 /\ first_path = "")
    /\ client = "ready" => (probes = 1 /\ first_path = "serverInfo")
    /\ client = "failed" => (probes = 1 /\ op \in {"none", "__init__"})
    /\ op \notin {"none", "__init__"} => client = "ready"

C8_Witness ==
    /\ client = "ready" /\ op = "search_issues" /\ Len(reqs) >= 2
    /\ probes = 1 /\ first_path = "serverInfo"

(* C9: get_create_issue_meta raises a not-found error when `projects` is   *)
(* empty, a different not-found error when the matched project's           *)
(* `issuetypes` is empty, and otherwise returns the matched project and    *)
(* issue type as top-level keys.                                           *)
C9_CreateIssueMeta ==
    (op = "get_create_issue_meta" /\ reqs[1].outcome = "ok") =>
        /\ meta.projects = <<>> => (pc = "raised" /\ error = "ProjectNotFound")
        /\ (meta.projects # <<>> /\ meta.projects[1].issuetypes = <<>>)
             => (pc = "raised" /\ error = "IssueTypeNotFound")
        /\ (meta.projects # <<>> /\ meta.projects[1].issuetypes # <<>>)
             => /\ pc = "returned"
                /\ result.project = meta.projects[1]
                /\ result.issuetype = meta.projects[1].issuetypes[1]

C9_Witness ==
    /\ op = "get_create_issue_meta" /\ pc = "raised"
    /\ meta.projects # <<>> /\ error = "IssueTypeNotFound"

(* C10: within one search_issues call the offset of every request equals   *)
(* the number of items received in all earlier responses of that call.     *)
C10_OffsetIsAccumulated ==
    op = "search_issues" =>
        \A i \in 1..Len(reqs) : Offset(reqs[i]) = SumCounts(reqs, i - 1)

====
